---- MODULE Spec2Model ----
(***************************************************************************)
(* Model of mammoth/modules/embeddings.py: PositionalEncoding, Embeddings  *)
(* and PluggableEmbeddings, and of mammoth/inputters/vocab.py: Vocab.      *)
(*                                                                         *)
(* Tensors are modelled by their shape and their entries.  Table entries   *)
(* are integers; the values torch draws at random (nn.Embedding and        *)
(* nn.Linear initialisation) are a fixed function of the RNG seed, which   *)
(* is an input of the construction.  One batch column is followed: every   *)
(* stage treats batch columns independently.                               *)
(***************************************************************************)
EXTENDS Integers, Sequences, FiniteSets, TLC

VARIABLES
    pe,         \* the PositionalEncoding under test, or None
    emb,        \* the Embeddings under test, or None
    plug,       \* the PluggableEmbeddings under test, or None
    ctor,       \* the constructor call of the run: [op, status], or None
    registered, \* the embedding_dict the PluggableEmbeddings was built from, or None
    activated,  \* the key of the last activate call that returned normally, or None
    new_vocab,  \* the Vocab under test, or None
    result      \* the last call: [op, in, status, out]

vars == <<pe, emb, plug, ctor, registered, activated, new_vocab, result>>

\* Python's None, and a present value: an optional value is a sequence of
\* length 0 or 1, so that None is distinct from every key, number and object.
None == <<>>

Some(x) == <<x>>

Val(o) == o[1]

-----------------------------------------------------------------------------
(* Bounds of the model.                                                    *)

\* longest input sequence handed to a forward call
MaxSeqLen == 2
\* largest max_len given to a directly constructed PositionalEncoding
MaxLen == 3
\* largest width given to a directly constructed PositionalEncoding
MaxDim == 5
\* largest number of feature channels
MaxFeats == 1

\* longest list of tokens passed to Vocab and to add_token
MaxItems == 2

-----------------------------------------------------------------------------
(* Small helpers for 0-based tensors: a vector is a function 0..n-1 -> Int, *)
(* a matrix a function 0..rows-1 -> vector.                                *)

Size(t) == Cardinality(DOMAIN t)

-----------------------------------------------------------------------------
(* PositionalEncoding                                                      *)

\* max_len=5000, the default of PositionalEncoding.__init__
DefaultMaxLen == 5000

\* The buffer `pe` of shape (max_len, 1, dim).  Its entries are a closed form
\* of the position, the column and dim:
\*   pe[p, 0::2] = sin(p * div_term), pe[p, 1::2] = cos(p * div_term) with
\*   div_term[i] = exp(2i * -(log(10000) / dim)),
\* so the state keeps the shape of the buffer and PEEntry gives its entries.
PEEntry(p, j, dim) ==
    [fn |-> IF j % 2 = 0 THEN "sin" ELSE "cos", pos |-> p, i |-> j \div 2, dim |-> dim]

PEBuffer(max_len, dim) == [rows |-> max_len, cols |-> dim]

\* self.pe[lo:hi] for 0 <= lo <= hi; Python clips the slice to the buffer
PESlice(buf, lo, hi) ==
    LET h == IF hi < buf.rows THEN hi ELSE buf.rows
        l == IF lo < h THEN lo ELSE h
    IN  [i \in 0..(h - l - 1) |-> [j \in 0..(buf.cols - 1) |-> PEEntry(l + i, j, buf.cols)]]

\* `if dim % 2 != 0: raise ValueError(...)`
OddDimIgnored(dim) == FALSE

OddDim(dim) == dim % 2 # 0

\* PositionalEncoding.__init__(dropout, dim, max_len)
PositionalEncodingInit(dropout, dim, max_len) ==
    IF OddDim(dim)
    THEN [status |-> "ValueError: odd dim", obj |-> None]
    ELSE [status |-> "ok",
          obj |-> Some([pe |-> PEBuffer(max_len, dim), dropout |-> [p |-> dropout],
                        dim |-> dim])]

\* `step or 0`: None and 0 both give offset 0
StepOrZero(step) == IF step = None THEN 0 ELSE Val(step)

\* Width of a sequence of vectors (0 for the empty sequence).
Width(t) == IF Size(t) = 0 THEN 0 ELSE Size(t[0])

\* emb + self.pe[step:(emb.size(0) + step)] broadcasts over the batch
\* dimension only: the widths must agree (or one of them be 1).
Broadcastable(embT, cols) ==
    \/ Size(embT) = 0
    \/ Width(embT) = cols
    \/ Width(embT) = 1
    \/ cols = 1

\* `if self.pe.size(0) < step + emb.size(0): raise SequenceTooLongError`
TooLongOffByOne(self, embT, o) == self.pe.rows <= o + Size(embT)

TooLong(self, embT, o) == self.pe.rows < o + Size(embT)

\* PositionalEncoding.forward(emb, step): the result tensor is
\*   dropout_p( data * sqrt(scale) + plus ).
PositionalEncodingForward(self, embT, step) ==
    LET o == StepOrZero(step)
        rows == PESlice(self.pe, o, Size(embT) + o)
    IN  IF TooLong(self, embT, o)
        THEN [status |-> "SequenceTooLongError", out |-> None]
        ELSE IF ~Broadcastable(embT, self.pe.cols)
        THEN [status |-> "RuntimeError", out |-> None]
        ELSE [status |-> "ok",
              out |-> Some([data |-> embT, scale |-> self.dim, plus |-> rows,
                            dropout |-> self.dropout.p])]

-----------------------------------------------------------------------------
(* Embeddings: construction                                                *)

\* A float such as feat_vec_exponent is kept as the fraction num/den, den > 0.
Frac(n, d) == [num |-> n, den |-> d]

RECURSIVE Pow(_, _)
Pow(b, n) == IF n = 0 THEN 1 ELSE b * Pow(b, n - 1)

\* int(vocab ** e) for e > 0: Python's int() truncates, so the result is the
\* largest k with k <= vocab^(num/den), i.e. k^den <= vocab^num.  For the
\* vocabulary sizes and exponents of the model vocab^e is not an integer, so
\* the rounding error of the float power cannot move it across one.
IntOfPowRoundedUp(vocab, e) ==
    LET target == Pow(vocab, e.num)
        ub == Pow(vocab, (e.num + e.den - 1) \div e.den)
    IN  CHOOSE k \in 0..ub : Pow(k, e.den) >= target /\ (k = 0 \/ Pow(k - 1, e.den) < target)

IntOfPow(vocab, e) ==
    LET target == Pow(vocab, e.num)
        ub == Pow(vocab, (e.num + e.den - 1) \div e.den)
    IN  CHOOSE k \in 0..ub : Pow(k, e.den) <= target /\ Pow(k + 1, e.den) > target

\* `if feat_vec_exponent <= 0: raise ValueError`
ExponentRejectedOnlyNegative(e) == e.num < 0

ExponentRejected(e) == e.num <= 0

\* Embeddings._validate_args: the warnings it emits
ValidateWarnings(a) ==
    IF a.feat_merge = "sum"
    THEN (IF a.feat_vec_exponent.num * 10 # 7 * a.feat_vec_exponent.den
          THEN {"sum: feat_vec_exponent unused"} ELSE {})
         \cup (IF a.feat_vec_size # -1 THEN {"sum: feat_vec_size unused"} ELSE {})
    ELSE IF a.feat_vec_size > 0
    THEN (IF a.feat_vec_exponent.num # -a.feat_vec_exponent.den
          THEN {"feat_vec_size: feat_vec_exponent unused"} ELSE {})
    ELSE {}

\* Embeddings._validate_args: "ok" or the exception it raises
ValidateArgs(a) ==
    IF a.feat_merge # "sum" /\ ~(a.feat_vec_size > 0) /\ ExponentRejected(a.feat_vec_exponent)
    THEN "ValueError: feat_vec_exponent less than or equal to 0"
    ELSE IF Len(a.feat_vocab_sizes) # Len(a.feat_padding_idx)
    THEN "ValueError: unequal number of feat_vocab_sizes and feat_padding_idx"
    ELSE "ok"

\* feat_dims of Embeddings.__init__
FeatDims(a) ==
    IF a.feat_merge = "sum"
    THEN [c \in 1..Len(a.feat_vocab_sizes) |-> a.word_vec_size]
    ELSE IF a.feat_vec_size > 0
    THEN [c \in 1..Len(a.feat_vocab_sizes) |-> a.feat_vec_size]
    ELSE [c \in 1..Len(a.feat_vocab_sizes) |->
              IntOfPow(a.feat_vocab_sizes[c], a.feat_vec_exponent)]

RECURSIVE SumSeq(_)
SumSeq(s) == IF Len(s) = 0 THEN 0 ELSE Head(s) + SumSeq(Tail(s))

Min(x, y) == IF x < y THEN x ELSE y

\* The values torch.nn.init draws for an embedding table: a function of the
\* RNG seed, never 0.
Rand(seed, c, i, j) == 1000 * seed + 100 * c + 10 * i + j + 1

\* nn.Embedding(vocab, dim, padding_idx=pad): random rows, the padding row 0
NNEmbedding(seed, c, vocab, dim, pad) ==
    [weight |-> [i \in 0..(vocab - 1) |->
                    [j \in 0..(dim - 1) |-> IF i = pad THEN 0 ELSE Rand(seed, c, i, j)]],
     requires_grad |-> TRUE,
     padding_idx |-> pad]

\* create_embeddingless(vocab, dim, padding_idx)
CreateEmbeddinglessPadKept(vocab, dim, padding_idx) ==
    IF dim - vocab < 0
    THEN [status |-> "RuntimeError", obj |-> None]
    ELSE [status |-> "ok",
          obj |-> Some([weight |-> [i \in 0..(vocab - 1) |->
                                       [j \in 0..(dim - 1) |-> IF i = j THEN 1 ELSE 0]],
                        requires_grad |-> FALSE,
                        padding_idx |-> padding_idx])]

CreateEmbeddingless(vocab, dim, padding_idx) ==
    IF dim - vocab < 0
    THEN \* torch.zeros((vocab, dim - vocab)) rejects a negative dimension
         [status |-> "RuntimeError", obj |-> None]
    ELSE LET one_hot_matrix == [i \in 0..(vocab - 1) |->
                                   [j \in 0..(vocab - 1) |-> IF i = j THEN 1 ELSE 0]]
             cat == [i \in 0..(vocab - 1) |->
                        [j \in 0..(dim - 1) |-> IF j < vocab THEN one_hot_matrix[i][j] ELSE 0]]
             one_hot_embed == [cat EXCEPT ![padding_idx] = [j \in 0..(dim - 1) |-> 0]]
         IN  [status |-> "ok",
              obj |-> Some([weight |-> one_hot_embed,
                            requires_grad |-> FALSE,
                            padding_idx |-> padding_idx])]

\* self.embedding_size = sum(emb_dims) if feat_merge == 'concat' else word_vec_size
EmbeddingSizeAlwaysWord(feat_merge, emb_dims, word_vec_size) == word_vec_size

EmbeddingSize(feat_merge, emb_dims, word_vec_size) ==
    IF feat_merge = "concat" THEN SumSeq(emb_dims) ELSE word_vec_size

\* `if feat_merge == 'mlp' and len(feat_vocab_sizes) > 0`
HasMlpAlways(a) == a.feat_merge = "mlp"

HasMlp(a) == a.feat_merge = "mlp" /\ Len(a.feat_vocab_sizes) > 0

\* The values torch draws for nn.Linear: weights in {-1, 0, 1}, bias in {0, 1}
LinearWeight(seed, o, i) == ((seed + 2 * o + i) % 3) - 1

LinearBias(seed, o) == (seed + o) % 2

\* nn.Sequential(nn.Linear(in_dim, word_vec_size), nn.ReLU())
MlpModule(seed, in_dim, out_dim) ==
    [in_dim |-> in_dim, out_dim |-> out_dim,
     weight |-> [o \in 0..(out_dim - 1) |-> [i \in 0..(in_dim - 1) |-> LinearWeight(seed, o, i)]],
     bias |-> [o \in 0..(out_dim - 1) |-> LinearBias(seed, o)]]

\* Embeddings.__init__: the object, or the exception raised
EmbeddingsInit(a) ==
    IF ValidateArgs(a) # "ok"
    THEN [status |-> ValidateArgs(a), obj |-> None]
    ELSE
    LET vocab_sizes == <<a.word_vocab_size>> \o a.feat_vocab_sizes
        emb_dims == <<a.word_vec_size>> \o FeatDims(a)
        pad_indices == <<a.word_padding_idx>> \o a.feat_padding_idx
        n == Min(Len(vocab_sizes), Min(Len(emb_dims), Len(pad_indices)))
        made == [c \in 1..n |->
                    IF a.enable_embeddingless
                    THEN CreateEmbeddingless(vocab_sizes[c], emb_dims[c], pad_indices[c])
                    ELSE [status |-> "ok",
                          obj |-> Some(NNEmbedding(a.seed, c - 1, vocab_sizes[c], emb_dims[c],
                                                   pad_indices[c]))]]
    IN
    IF \E c \in 1..n : made[c].status # "ok"
    THEN [status |-> "RuntimeError", obj |-> None]
    ELSE
    LET emb_luts == [merge |-> a.feat_merge, luts |-> [c \in 1..n |-> Val(made[c].obj)]]
        embedding_size == EmbeddingSize(a.feat_merge, emb_dims, a.word_vec_size)
        stage1 == <<[name |-> "emb_luts", mod |-> emb_luts]>>
        stage2 == IF HasMlp(a)
                  THEN Append(stage1, [name |-> "mlp",
                                       mod |-> MlpModule(a.seed, SumSeq(emb_dims),
                                                         a.word_vec_size)])
                  ELSE stage1
        peR == PositionalEncodingInit(a.dropout, embedding_size, DefaultMaxLen)
    IN
    IF a.position_encoding /\ peR.status # "ok"
    THEN [status |-> peR.status, obj |-> None]
    ELSE
    LET stage3 == IF a.position_encoding
                  THEN Append(stage2, [name |-> "pe", mod |-> Val(peR.obj)])
                  ELSE stage2
        self == [word_padding_idx |-> a.word_padding_idx,
                 word_vec_size |-> a.word_vec_size,
                 embedding_size |-> embedding_size,
                 position_encoding |-> a.position_encoding,
                 make_embedding |-> stage3]
    IN  [status |-> "ok",
         obj |-> Some(IF a.freeze_word_vecs
                      THEN [self EXCEPT !.make_embedding[1].mod.luts[1].requires_grad = FALSE]
                      ELSE self)]

\* Embeddings.word_lut: make_embedding[0][0]
WordLut(self) == self.make_embedding[1].mod.luts[1]

-----------------------------------------------------------------------------
(* Embeddings: forward pipeline                                            *)

\* A float tensor that no positional encoding has touched.
Plain(t) == [data |-> t, scale |-> 1, plus |-> <<>>, dropout |-> 0]

\* torch.cat of a list of vectors along the last dimension
RECURSIVE Cat(_)
Cat(vs) ==
    IF Len(vs) = 0 THEN <<>>
    ELSE LET h == Head(vs)
             r == Cat(Tail(vs))
         IN  [j \in 0..(Size(h) + Size(r) - 1) |-> IF j < Size(h) THEN h[j] ELSE r[j - Size(h)]]

\* elementwise sum of a non-empty list of vectors of one width
RECURSIVE AddAll(_)
AddAll(vs) ==
    IF Len(vs) = 1 THEN Head(vs)
    ELSE LET h == Head(vs)
             r == AddAll(Tail(vs))
         IN  [j \in DOMAIN h |-> h[j] + r[j]]

\* Elementwise.forward: one lookup per channel, then the merge
ElementwiseForward(self, source) ==
    LET n == Len(self.luts)
        looked(t) == [c \in 1..n |-> self.luts[c].weight[source[t][c - 1]]]
    IN  IF \E t \in DOMAIN source : Size(source[t]) # n
        THEN [status |-> "AssertionError", out |-> None]
        ELSE IF \E t \in DOMAIN source : \E c \in 1..n :
                    source[t][c - 1] \notin DOMAIN self.luts[c].weight
        THEN [status |-> "IndexError", out |-> None]
        ELSE IF self.merge = "sum"
        THEN IF \E c \in 1..n : Width(self.luts[c].weight) # Width(self.luts[1].weight)
             THEN [status |-> "RuntimeError", out |-> None]
             ELSE [status |-> "ok",
                   out |-> Some(Plain([t \in DOMAIN source |-> AddAll(looked(t))]))]
        ELSE [status |-> "ok",
              out |-> Some(Plain([t \in DOMAIN source |-> Cat(looked(t))]))]

RECURSIVE Dot(_, _, _)
Dot(w, x, k) == IF k = 0 THEN 0 ELSE w[k - 1] * x[k - 1] + Dot(w, x, k - 1)

Relu(x) == IF x < 0 THEN 0 ELSE x

\* the mlp stage: nn.Linear(in_dim, word_vec_size) then nn.ReLU()
MlpForward(self, x) ==
    IF Size(x) > 0 /\ Width(x) # self.in_dim
    THEN [status |-> "RuntimeError", out |-> None]
    ELSE [status |-> "ok",
          out |-> Some(Plain([t \in DOMAIN x |->
                     [o \in 0..(self.out_dim - 1) |->
                         Relu(self.bias[o] + Dot(self.weight[o], x[t], self.in_dim))]]))]

\* module(source): a stage of make_embedding called without step
Call(m, x) ==
    IF m.name = "emb_luts" THEN ElementwiseForward(m.mod, x)
    ELSE IF m.name = "mlp" THEN MlpForward(m.mod, x)
    ELSE PositionalEncodingForward(m.mod, x, None)

\* module(source, step=step): only PositionalEncoding.forward takes step
CallStep(m, x, step) ==
    IF m.name = "pe" THEN PositionalEncodingForward(m.mod, x, step)
    ELSE [status |-> "TypeError", out |-> None]

\* Which stage receives step: with position encoding the last one
\* (`if i == len(self.make_embedding._modules.values()) - 1`), else none.
TakesStep(self, k) == self.position_encoding /\ k = Len(self.make_embedding)

\* the stages k, k+1, ... of make_embedding applied to x
RECURSIVE RunStages(_, _, _, _)
RunStages(self, k, x, step) ==
    LET m == self.make_embedding[k]
        r == IF TakesStep(self, k) THEN CallStep(m, x, step) ELSE Call(m, x)
    IN  IF r.status # "ok" \/ k = Len(self.make_embedding)
        THEN r
        ELSE RunStages(self, k + 1, Val(r.out).data, step)

\* Embeddings.forward(source, step)
EmbeddingsForward(self, source, step) == RunStages(self, 1, source, step)

\* getattr(module, "dropout"): a PositionalEncoding has the attribute, the
\* nn.Sequential of the projection and the lookup module have not
HasDropout(m) == "dropout" \in DOMAIN m.mod

\* Embeddings.update_dropout(dropout): the object afterwards, or the
\* exception raised.  _modules['make_embedding'][1] is the second stage.
UpdateDropout(self, dropout) ==
    IF ~self.position_encoding
    THEN [status |-> "ok", obj |-> self]
    ELSE IF ~HasDropout(self.make_embedding[2])
    THEN [status |-> "AttributeError", obj |-> self]
    ELSE [status |-> "ok",
          obj |-> [self EXCEPT !.make_embedding[2].mod.dropout.p = dropout]]

\* Embeddings.load_pretrained_vectors(emb_file): the object afterwards.
\* emb_file is None or the (vocabulary x width) table stored in the file.
LoadPretrainedZeroFill(self, emb_file) ==
    IF emb_file = None THEN self
    ELSE LET pretrained == Val(emb_file)
             old == WordLut(self).weight
         IN  [self EXCEPT !.make_embedding[1].mod.luts[1].weight =
                 [i \in DOMAIN old |-> [j \in DOMAIN old[i] |->
                     IF j < Width(pretrained) THEN pretrained[i][j] ELSE 0]]]

LoadPretrainedVectors(self, emb_file) ==
    IF emb_file = None THEN self
    ELSE LET pretrained == Val(emb_file)
             pretrained_vec_size == Width(pretrained)
             old == WordLut(self).weight
             new == IF self.word_vec_size > pretrained_vec_size
                    THEN [i \in DOMAIN old |-> [j \in DOMAIN old[i] |->
                             IF j < pretrained_vec_size THEN pretrained[i][j] ELSE old[i][j]]]
                    ELSE IF self.word_vec_size < pretrained_vec_size
                    THEN [i \in DOMAIN old |-> [j \in 0..(self.word_vec_size - 1) |->
                             pretrained[i][j]]]
                    ELSE pretrained
         IN  [self EXCEPT !.make_embedding[1].mod.luts[1].weight = new]

-----------------------------------------------------------------------------
(* PluggableEmbeddings                                                     *)

\* f'embeddings_{key}'
ModuleName(key) == "embeddings_" \o key

\* PluggableEmbeddings.__init__(embedding_dict): embedding_dict is a function
\* from keys to Embeddings objects.
PluggableInit(embedding_dict) ==
    [modules |-> [name \in {ModuleName(k) : k \in DOMAIN embedding_dict} |->
                     embedding_dict[CHOOSE k \in DOMAIN embedding_dict : ModuleName(k) = name]],
     active_key |-> None]

\* `assert f'embeddings_{key}' in self`
IsRegisteredAlways(self, key) == TRUE

IsRegistered(self, key) == ModuleName(key) \in DOMAIN self.modules

\* PluggableEmbeddings.activate(key)
PluggableActivate(self, key) ==
    IF ~IsRegistered(self, key)
    THEN [status |-> "AssertionError", obj |-> self]
    ELSE [status |-> "ok", obj |-> [self EXCEPT !.active_key = Some(key)]]

\* PluggableEmbeddings._active_embeddings
ActiveEmbeddingsFirst(self) ==
    IF self.active_key = None
    THEN [status |-> "Exception: Must activate PluggableEmbeddings before forward",
          obj |-> None]
    ELSE [status |-> "ok",
          obj |-> Some(self.modules[CHOOSE name \in DOMAIN self.modules : TRUE])]

ActiveEmbeddings(self) ==
    IF self.active_key = None
    THEN [status |-> "Exception: Must activate PluggableEmbeddings before forward",
          obj |-> None]
    ELSE IF ModuleName(Val(self.active_key)) \notin DOMAIN self.modules
    THEN [status |-> "KeyError", obj |-> None]
    ELSE [status |-> "ok", obj |-> Some(self.modules[ModuleName(Val(self.active_key))])]

\* PluggableEmbeddings.forward(source, step)
PluggableForward(self, source, step) ==
    LET active == ActiveEmbeddings(self)
    IN  IF active.status # "ok"
        THEN [status |-> active.status, out |-> None]
        ELSE EmbeddingsForward(Val(active.obj), source, step)

-----------------------------------------------------------------------------
(* Inputs of the calls                                                     *)

\* dropout probabilities, in percent
Dropouts == {0, 10}

\* seeds of the random number generator
Seeds == {1, 2}

WordVecSizes == {2, 3}

WordVocabSizes == {2, 3}

FeatVocabSizes == {2, 3}

PadIndices == {0, 1}

FeatPadIndices == {0}

Merges == {"concat", "sum", "mlp"}

\* 0.7 is the default of feat_vec_exponent, -1 the value _validate_args
\* takes for unset when feat_vec_size is positive
Exponents == {Frac(-1, 1), Frac(0, 1), Frac(7, 10)}

\* -1 is the default of feat_vec_size
FeatVecSizes == {-1, 2}

SeqsUpTo(S, n) == UNION {[1..k -> S] : k \in 0..n}

EmbeddingsArgs ==
    [word_vec_size : WordVecSizes,
     word_vocab_size : WordVocabSizes,
     word_padding_idx : PadIndices,
     position_encoding : BOOLEAN,
     feat_merge : Merges,
     feat_vec_exponent : Exponents,
     feat_vec_size : FeatVecSizes,
     feat_padding_idx : SeqsUpTo(FeatPadIndices, MaxFeats),
     feat_vocab_sizes : SeqsUpTo(FeatVocabSizes, MaxFeats),
     dropout : {0},
     freeze_word_vecs : {FALSE},
     enable_embeddingless : BOOLEAN,
     seed : {1}]

\* index tensors (len, nfeat) for an Embeddings: every channel of a token
\* holds the same index; the indices alternate between 0 and 1, or the last
\* one is the first index the word table does not have
SourcesOf(nfeat, beyond) ==
    {[t \in 0..(l - 1) |-> [c \in 0..(nfeat - 1) |-> (t + b) % 2]] :
        l \in 0..MaxSeqLen, b \in {0, 1}}
    \cup {[t \in 0..(l - 1) |-> [c \in 0..(nfeat - 1) |-> IF t = l - 1 THEN beyond ELSE 0]] :
             l \in 1..MaxSeqLen}

Sources(self) == SourcesOf(Len(self.make_embedding[1].mod.luts), Size(WordLut(self).weight))

\* index tensors for a registry: those of its Embeddings
PlugSources(self) ==
    IF DOMAIN self.modules = {}
    THEN SourcesOf(1, 1)
    ELSE UNION {Sources(self.modules[k]) : k \in DOMAIN self.modules}

\* step: unset, the first position, and the last position of the table
EmbSteps == {None, Some(0), Some(DefaultMaxLen - 1)}

\* float tensors (len, dim) handed to a PositionalEncoding
Floats(dim) == {[t \in 0..(l - 1) |-> [j \in 0..(dim - 1) |-> 10 * t + j + 1]] : l \in 0..MaxSeqLen}

PESteps == {None} \cup {Some(o) : o \in 0..MaxLen}

\* the table a pretrained-embeddings file holds: one row per word
Pretrained(vocab, width) == [i \in 0..(vocab - 1) |-> [j \in 0..(width - 1) |-> 500 + 10 * i + j]]

EmbFiles(self) ==
    {None} \cup {Some(Pretrained(Size(WordLut(self).weight), w)) :
                    w \in (self.word_vec_size - 1)..(self.word_vec_size + 1)}

\* keys of the registries, and the keys activate is called with
Keys == {"en", "de"}

ActivateKeys == {"en", "de", "xx"}

\* the Embeddings a registry is built from
RegistryArgs ==
    {[word_vec_size |-> 2, word_vocab_size |-> 2, word_padding_idx |-> 0,
      position_encoding |-> p, feat_merge |-> "concat", feat_vec_exponent |-> Frac(7, 10),
      feat_vec_size |-> -1, feat_padding_idx |-> <<>>, feat_vocab_sizes |-> <<>>,
      dropout |-> 0, freeze_word_vecs |-> FALSE, enable_embeddingless |-> FALSE,
      seed |-> sd] : p \in BOOLEAN, sd \in Seeds}

EmbeddingDicts == UNION {[ks -> RegistryArgs] : ks \in SUBSET Keys}

-----------------------------------------------------------------------------
(* The state machine: one object is constructed and then called.           *)

-----------------------------------------------------------------------------
(* mammoth/inputters/vocab.py: Vocab                                       *)

\* DEFAULT_SPECIALS: the four tokens DefaultTokens.BOS, EOS, UNK and PAD,
\* written here by the names of their fields
DEFAULT_SPECIALS == <<"BOS", "EOS", "UNK", "PAD">>

\* `t in list`
InList(t, list) == \E i \in DOMAIN list : list[i] = t

\* collections.defaultdict(int)(): no key yet
EmptyDict == [k \in {} |-> 0]

\* `d[key] = value`
SetItem(d, key, value) == [k \in DOMAIN d \cup {key} |-> IF k = key THEN value ELSE d[k]]

\* Vocab.add_token(tokens): the object afterwards
RECURSIVE AddToken(_, _)
AddToken(self, tokens) ==
    IF tokens = <<>> THEN self
    ELSE LET t == Head(tokens)
             new_index == Len(self.itos)
             next == IF ~InList(t, self.itos)
                     THEN [self EXCEPT !.itos = Append(@, t),
                                       !.stoi = SetItem(@, t, new_index)]
                     ELSE self
         IN  AddToken(next, Tail(tokens))

\* the pieces of the SentencePiece model stored at a path, in id order
Pieces(model_path) ==
    IF model_path = "small.model" THEN <<"UNK", "a">>
    ELSE <<"UNK", "BOS", "EOS", "a", "b">>

\* Vocab.__init__(model_path, items): the object, or the exception raised
VocabInit(model_path, items) ==
    LET specials == DEFAULT_SPECIALS
        all == IF items = None THEN Pieces(model_path) ELSE Val(items)
        kept == SelectSeq(all, LAMBDA i : ~InList(i, specials))
        self == AddToken([path |-> model_path, itos |-> <<>>, stoi |-> EmptyDict,
                          specials |-> specials],
                         kept \o specials)
    IN  IF Cardinality(DOMAIN self.stoi) = Len(self.itos)
        THEN [status |-> "ok", obj |-> Some(self)]
        ELSE [status |-> "AssertionError", obj |-> None]

\* Vocab.__getitem__(key_str): self.stoi[key_str] on a defaultdict(int), which
\* stores 0 under a missing key before returning it
VocabGetItem(self, key_str) ==
    IF key_str \in DOMAIN self.stoi
    THEN [status |-> "ok", out |-> Some(self.stoi[key_str]), obj |-> self]
    ELSE [status |-> "ok", out |-> Some(0),
          obj |-> [self EXCEPT !.stoi = SetItem(@, key_str, 0)]]

\* Vocab.__len__()
VocabLen(self) == Cardinality(DOMAIN self.stoi)

NoResult == [op |-> "none", in |-> None, status |-> "none", out |-> None]

Init ==
    /\ pe = None
    /\ emb = None
    /\ plug = None
    /\ ctor = None
    /\ registered = None
    /\ activated = None
    /\ new_vocab = None
    /\ result = NoResult

\* A run makes one constructor call; an exception it raises ends the run.
NothingConstructed == ctor = None

\* PositionalEncoding(dropout, dim, max_len)
ConstructPE ==
    /\ NothingConstructed
    /\ \E dropout \in Dropouts, dim \in 1..MaxDim, max_len \in 0..MaxLen :
          LET r == PositionalEncodingInit(dropout, dim, max_len)
              a == [dropout |-> dropout, dim |-> dim, max_len |-> max_len]
          IN  /\ pe' = r.obj
              /\ ctor' = Some([op |-> "PositionalEncoding.__init__", status |-> r.status])
              /\ result' = [op |-> "PositionalEncoding.__init__", in |-> a,
                            status |-> r.status, out |-> None]
    /\ UNCHANGED <<emb, plug, registered, activated, new_vocab>>

\* pe(emb, step=step)
PEForward ==
    /\ pe # None
    /\ \E embT \in Floats(Val(pe).dim), step \in PESteps :
          LET r == PositionalEncodingForward(Val(pe), embT, step)
          IN  result' = [op |-> "PositionalEncoding.forward",
                         in |-> [emb |-> embT, step |-> step, before |-> Val(pe)],
                         status |-> r.status, out |-> r.out]
    /\ UNCHANGED <<pe, emb, plug, ctor, registered, activated, new_vocab>>

\* Embeddings(...)
ConstructEmbeddings ==
    /\ NothingConstructed
    /\ \E a \in EmbeddingsArgs :
          LET r == EmbeddingsInit(a)
          IN  /\ emb' = r.obj
              /\ ctor' = Some([op |-> "Embeddings.__init__", status |-> r.status])
              /\ result' = [op |-> "Embeddings.__init__", in |-> a,
                            status |-> r.status, out |-> ValidateWarnings(a)]
    /\ UNCHANGED <<pe, plug, registered, activated, new_vocab>>

\* embeddings(source, step=step)
EmbForward ==
    /\ emb # None
    /\ \E source \in Sources(Val(emb)), step \in EmbSteps :
          LET r == EmbeddingsForward(Val(emb), source, step)
          IN  result' = [op |-> "Embeddings.forward",
                         in |-> [source |-> source, step |-> step, before |-> Val(emb)],
                         status |-> r.status, out |-> r.out]
    /\ UNCHANGED <<pe, emb, plug, ctor, registered, activated, new_vocab>>

\* embeddings.load_pretrained_vectors(emb_file)
LoadPretrained ==
    /\ emb # None
    /\ \E emb_file \in EmbFiles(Val(emb)) :
          /\ emb' = Some(LoadPretrainedVectors(Val(emb), emb_file))
          /\ result' = [op |-> "Embeddings.load_pretrained_vectors",
                        in |-> [emb_file |-> emb_file, before |-> Val(emb)],
                        status |-> "ok", out |-> None]
    /\ UNCHANGED <<pe, plug, ctor, registered, activated, new_vocab>>

\* embeddings.update_dropout(dropout)
EmbUpdateDropout ==
    /\ emb # None
    /\ \E dropout \in Dropouts :
          LET r == UpdateDropout(Val(emb), dropout)
          IN  /\ emb' = Some(r.obj)
              /\ result' = [op |-> "Embeddings.update_dropout",
                            in |-> [dropout |-> dropout, before |-> Val(emb)],
                            status |-> r.status, out |-> None]
    /\ UNCHANGED <<pe, plug, ctor, registered, activated, new_vocab>>

\* PluggableEmbeddings(embedding_dict)
ConstructPluggable ==
    /\ NothingConstructed
    /\ \E d \in EmbeddingDicts :
          LET embedding_dict == [k \in DOMAIN d |-> Val(EmbeddingsInit(d[k]).obj)]
          IN  /\ plug' = Some(PluggableInit(embedding_dict))
              /\ ctor' = Some([op |-> "PluggableEmbeddings.__init__", status |-> "ok"])
              /\ registered' = Some(embedding_dict)
              /\ result' = [op |-> "PluggableEmbeddings.__init__", in |-> embedding_dict,
                            status |-> "ok", out |-> None]
    /\ UNCHANGED <<pe, emb, activated, new_vocab>>

\* pluggable.activate(key); `activated` remembers the last key for which the
\* call returned normally.
Activate ==
    /\ plug # None
    /\ \E key \in ActivateKeys :
          LET r == PluggableActivate(Val(plug), key)
          IN  /\ plug' = Some(r.obj)
              /\ activated' = IF r.status = "ok" THEN Some(key) ELSE activated
              /\ result' = [op |-> "PluggableEmbeddings.activate",
                            in |-> [key |-> key, before |-> Val(plug).active_key],
                            status |-> r.status, out |-> None]
    /\ UNCHANGED <<pe, emb, ctor, registered, new_vocab>>

\* pluggable(source, step=step)
PlugForward ==
    /\ plug # None
    /\ \E source \in PlugSources(Val(plug)), step \in EmbSteps :
          LET r == PluggableForward(Val(plug), source, step)
          IN  result' = [op |-> "PluggableEmbeddings.forward",
                         in |-> [source |-> source, step |-> step],
                         status |-> r.status, out |-> r.out]
    /\ UNCHANGED <<pe, emb, plug, ctor, registered, activated, new_vocab>>

\* the lists of tokens of the calls: at most MaxItems tokens of a universe
ListsOf(universe) ==
    UNION {[1..n -> universe] : n \in 0..MaxItems}

ModelPaths == {"small.model", "big.model"}

\* items of the constructor: None (take the pieces of the model) or a list,
\* which may repeat a token and may hold a special token
VocabItems == {None} \cup {Some(l) : l \in ListsOf({"a", "b", "UNK"})}

\* keys looked up: in the vocabulary or not
LookupKeys == {"a", "b", "PAD", "zz"}

\* Vocab(model_path, items)
ConstructVocab ==
    /\ NothingConstructed
    /\ \E model_path \in ModelPaths, items \in VocabItems :
          LET r == VocabInit(model_path, items)
          IN  /\ new_vocab' = r.obj
              /\ ctor' = Some([op |-> "Vocab.__init__", status |-> r.status])
              /\ result' = [op |-> "Vocab.__init__",
                            in |-> [model_path |-> model_path, items |-> items],
                            status |-> r.status, out |-> None]
    /\ UNCHANGED <<pe, emb, plug, registered, activated>>

\* vocab[key_str]
VocabLookup ==
    /\ new_vocab # None
    /\ \E key_str \in LookupKeys :
          LET r == VocabGetItem(Val(new_vocab), key_str)
          IN  /\ new_vocab' = Some(r.obj)
              /\ result' = [op |-> "Vocab.__getitem__",
                            in |-> [key_str |-> key_str, before |-> Val(new_vocab)],
                            status |-> r.status, out |-> r.out]
    /\ UNCHANGED <<pe, emb, plug, ctor, registered, activated>>

\* len(vocab)
VocabLength ==
    /\ new_vocab # None
    /\ result' = [op |-> "Vocab.__len__", in |-> [before |-> Val(new_vocab)],
                  status |-> "ok", out |-> Some(VocabLen(Val(new_vocab)))]
    /\ UNCHANGED <<pe, emb, plug, ctor, registered, activated, new_vocab>>

\* vocab.add_token(tokens)
VocabAddToken ==
    /\ new_vocab # None
    /\ \E tokens \in ListsOf({"a", "zz"}) :
          /\ new_vocab' = Some(AddToken(Val(new_vocab), tokens))
          /\ result' = [op |-> "Vocab.add_token",
                        in |-> [tokens |-> tokens, before |-> Val(new_vocab)],
                        status |-> "ok", out |-> None]
    /\ UNCHANGED <<pe, emb, plug, ctor, registered, activated>>

Next ==
    \/ ConstructPE
    \/ PEForward
    \/ ConstructEmbeddings
    \/ EmbForward
    \/ LoadPretrained
    \/ EmbUpdateDropout
    \/ ConstructPluggable
    \/ Activate
    \/ PlugForward
    \/ ConstructVocab
    \/ VocabLookup
    \/ VocabLength
    \/ VocabAddToken

Spec == Init /\ [][Next]_vars

-----------------------------------------------------------------------------
(* Properties                                                              *)

NotActivated == "Exception: Must activate PluggableEmbeddings before forward"

\* C1: a forward call on the registry fails with the "not activated" error
\* exactly when no activate call has returned normally so far; otherwise its
\* outcome is the outcome of forward(source, step) of the Embeddings that was
\* registered under the key of the last activate call that returned normally.
C1_ForwardDelegates ==
    (plug # None /\ result.op = "PluggableEmbeddings.forward") =>
        IF activated = None
        THEN result.status = NotActivated
        ELSE /\ result.status # NotActivated
             /\ Val(activated) \in DOMAIN Val(registered)
             /\ LET r == EmbeddingsForward(Val(registered)[Val(activated)],
                                           result.in.source, result.in.step)
                IN  result.status = r.status /\ result.out = r.out

\* A forward call that succeeded on a registry of two different Embeddings,
\* after an activation.
C1_Witness ==
    /\ plug # None
    /\ result.op = "PluggableEmbeddings.forward"
    /\ result.status = "ok"
    /\ activated = Some("de")
    /\ DOMAIN Val(registered) = Keys
    /\ Val(registered)["en"] # Val(registered)["de"]
    /\ Size(Val(result.out).data) > 0

\* C2: activate(key) fails for every key that is not registered and then
\* leaves the active key as it was; the active key is always unset or a
\* registered key.
C2_ActivateRegisteredOnly ==
    plug # None =>
        /\ \/ Val(plug).active_key = None
           \/ Val(Val(plug).active_key) \in DOMAIN Val(registered)
        /\ (result.op = "PluggableEmbeddings.activate"
              /\ result.in.key \notin DOMAIN Val(registered)) =>
                 /\ result.status = "AssertionError"
                 /\ Val(plug).active_key = result.in.before

\* activate of an unregistered key failed after an earlier activation.
C2_Witness ==
    /\ plug # None
    /\ result.op = "PluggableEmbeddings.activate"
    /\ result.in.key = "xx"
    /\ result.status = "AssertionError"
    /\ Val(plug).active_key = Some("en")

\* the offset a step stands for: None and 0 mean offset 0
OffsetOf(step) == IF step = None THEN 0 ELSE step[1]

\* the lookup tables of an Embeddings, the word table first
Luts(self) == self.make_embedding[1].mod.luts

Merge(self) == self.make_embedding[1].mod.merge

\* every index of the source is a row of the table of its channel
ValidSource(self, source) ==
    \A t \in DOMAIN source : \A c \in DOMAIN source[t] :
        /\ c + 1 \in DOMAIN Luts(self)
        /\ source[t][c] \in DOMAIN Luts(self)[c + 1].weight

\* C3: a PositionalEncoding with table length L applied to a sequence of
\* length l at offset o succeeds if and only if o + l <= L and raises
\* SequenceTooLongError if o + l > L, called directly or as the last stage of
\* Embeddings.forward; the call leaves the table as it was.
C3_SequenceTooLong ==
    /\ (pe # None /\ result.op = "PositionalEncoding.forward") =>
          LET l == Size(result.in.emb)
              o == OffsetOf(result.in.step)
              L == result.in.before.pe.rows
          IN  /\ result.status = "ok" <=> o + l <= L
              /\ o + l > L => result.status = "SequenceTooLongError"
              /\ Val(pe) = result.in.before
    /\ (emb # None /\ Val(emb).position_encoding) =>
          LET stages == Val(emb).make_embedding
              last == stages[Len(stages)]
          IN  /\ last.name = "pe"
              /\ last.mod.pe = PEBuffer(DefaultMaxLen, Val(emb).embedding_size)
              /\ (result.op = "Embeddings.forward"
                    /\ ValidSource(Val(emb), result.in.source)) =>
                    LET l == Size(result.in.source)
                        o == OffsetOf(result.in.step)
                    IN  /\ result.status = "ok" <=> o + l <= DefaultMaxLen
                        /\ o + l > DefaultMaxLen => result.status = "SequenceTooLongError"
                        /\ Val(emb) = result.in.before

\* A sequence that exactly fills the table from a positive offset was
\* accepted.
C3_Witness ==
    /\ pe # None
    /\ result.op = "PositionalEncoding.forward"
    /\ result.status = "ok"
    /\ OffsetOf(result.in.step) > 0
    /\ Size(result.in.emb) > 0
    /\ OffsetOf(result.in.step) + Size(result.in.emb) = Val(pe).pe.rows

\* C4: embedding_size is the sum of the widths of all tables when the merge is
\* concat and the width of the word table when it is sum or mlp, and it is the
\* width of the vectors forward returns.
C4_EmbeddingSize ==
    emb # None =>
        /\ Val(emb).embedding_size =
              IF Merge(Val(emb)) = "concat"
              THEN SumSeq([c \in DOMAIN Luts(Val(emb)) |-> Width(Luts(Val(emb))[c].weight)])
              ELSE Width(Luts(Val(emb))[1].weight)
        /\ (result.op = "Embeddings.forward" /\ result.status = "ok"
              /\ Size(result.in.source) > 0) =>
                 Width(Val(result.out).data) = Val(emb).embedding_size

\* forward succeeded on a concat of a word and a feature channel.
C4_WitnessConcat ==
    /\ emb # None
    /\ Merge(Val(emb)) = "concat"
    /\ Len(Luts(Val(emb))) > 1
    /\ result.op = "Embeddings.forward"
    /\ result.status = "ok"
    /\ Size(result.in.source) > 0
    /\ Width(Val(result.out).data) > Val(emb).word_vec_size

\* the state right after Embeddings.__init__; result.in holds its arguments
AfterEmbeddingsInit == ctor # None /\ result.op = "Embeddings.__init__"

\* the feature channels whose width comes from the exponent rule
UsesExponent(a) == a.feat_merge # "sum" /\ ~(a.feat_vec_size > 0)

\* w = round(vocab ^ (num/den)): |vocab^(num/den) - w| <= 1/2, i.e.
\* (2w - 1)^den <= 2^den * vocab^num <= (2w + 1)^den
IsRounded(w, vocab, e) ==
    /\ Pow(2 * w - 1, e.den) <= Pow(2, e.den) * Pow(vocab, e.num)
    /\ Pow(2, e.den) * Pow(vocab, e.num) <= Pow(2 * w + 1, e.den)

\* w = floor(vocab ^ (num/den)): w^den <= vocab^num < (w + 1)^den
IsTruncated(w, vocab, e) ==
    /\ Pow(w, e.den) <= Pow(vocab, e.num)
    /\ Pow(vocab, e.num) < Pow(w + 1, e.den)

OtherChecksPass(a) ==
    /\ a.feat_vec_size > 0 \/ a.feat_vec_exponent.num > 0
    /\ Len(a.feat_padding_idx) = Len(a.feat_vocab_sizes)
    /\ a.enable_embeddingless => a.word_vec_size >= a.word_vocab_size
    /\ a.position_encoding => a.word_vec_size % 2 = 0

\* C6 as stated: construction with merge mlp and no feature channel is
\* rejected with a configuration error.
C6_MlpNeedsFeature ==
    (AfterEmbeddingsInit /\ result.in.feat_merge = "mlp"
       /\ Len(result.in.feat_vocab_sizes) = 0) =>
          emb = None

\* C6 amended: construction with merge mlp and no feature channel is not
\* rejected for the missing features: it succeeds exactly when the checks that
\* apply to every merge strategy pass, and the object then has no projection
\* stage and the word width as embedding_size.
C6_MlpWithoutFeature ==
    (AfterEmbeddingsInit /\ result.in.feat_merge = "mlp"
       /\ Len(result.in.feat_vocab_sizes) = 0) =>
          /\ emb # None <=> OtherChecksPass(result.in)
          /\ emb # None =>
                /\ \A k \in DOMAIN Val(emb).make_embedding :
                      Val(emb).make_embedding[k].name # "mlp"
                /\ Val(emb).embedding_size = result.in.word_vec_size

\* an Embeddings with merge mlp and no feature channel was constructed.
C6_Witness ==
    /\ AfterEmbeddingsInit
    /\ emb # None
    /\ result.in.feat_merge = "mlp"
    /\ Len(result.in.feat_vocab_sizes) = 0
    /\ Len(Val(emb).make_embedding) = 1

ExponentError == "ValueError: feat_vec_exponent less than or equal to 0"

\* C7 as stated: construction with a feature-width exponent of 0 or less
\* fails with a configuration error.
C7_NonPositiveExponentFails ==
    (AfterEmbeddingsInit /\ result.in.feat_vec_exponent.num <= 0) =>
        emb = None /\ result.status = ExponentError

\* C7 amended: when the merge is not sum and no positive feature width is
\* given, construction with a feature-width exponent of 0 or less fails with
\* a configuration error, for any number of feature channels.
C7_NonPositiveExponentFailsUnderRule ==
    (AfterEmbeddingsInit /\ UsesExponent(result.in)
       /\ result.in.feat_vec_exponent.num <= 0) =>
          emb = None /\ result.status = ExponentError

\* construction without feature channels failed on the exponent 0.
C7_Witness ==
    /\ AfterEmbeddingsInit
    /\ UsesExponent(result.in)
    /\ result.in.feat_vec_exponent = Frac(0, 1)
    /\ Len(result.in.feat_vocab_sizes) = 0
    /\ Len(result.in.feat_padding_idx) = 0
    /\ result.status = ExponentError
    /\ emb = None

\* _validate_args accepted the arguments
Validated(status) ==
    /\ status # ExponentError
    /\ status # "ValueError: unequal number of feat_vocab_sizes and feat_padding_idx"

\* vocabulary size, width and padding index of channel c (1 is the word)
ChannelVocab(a, c) == IF c = 1 THEN a.word_vocab_size ELSE a.feat_vocab_sizes[c - 1]

ChannelWidth(a, c) ==
    IF c = 1 \/ a.feat_merge = "sum" THEN a.word_vec_size
    ELSE IF a.feat_vec_size > 0 THEN a.feat_vec_size
    ELSE CHOOSE w \in 0..ChannelVocab(a, c) :
             IsTruncated(w, ChannelVocab(a, c), a.feat_vec_exponent)

ChannelPad(a, c) == IF c = 1 THEN a.word_padding_idx ELSE a.feat_padding_idx[c - 1]

\* C8: with structured tables, the table of a channel with vocabulary size V
\* and width D is built if and only if D >= V (the construction fails on the
\* first channel with D < V); a table as built by the constructor has in row
\* i a 1 in column i and 0 elsewhere, for every i but the padding index, whose
\* row is all zeros, and it is not trainable.
C8_Embeddingless ==
    (AfterEmbeddingsInit /\ result.in.enable_embeddingless /\ Validated(result.status)) =>
        LET a == result.in
            chans == 1..(Len(a.feat_vocab_sizes) + 1)
        IN  /\ result.status = "RuntimeError" <=>
                  \E c \in chans : ChannelWidth(a, c) < ChannelVocab(a, c)
            /\ emb # None =>
                  /\ DOMAIN Luts(Val(emb)) = chans
                  /\ \A c \in chans :
                        LET t == Luts(Val(emb))[c]
                        IN  /\ ~t.requires_grad
                            /\ DOMAIN t.weight = 0..(ChannelVocab(a, c) - 1)
                            /\ \A i \in DOMAIN t.weight :
                                  /\ DOMAIN t.weight[i] = 0..(ChannelWidth(a, c) - 1)
                                  /\ \A j \in DOMAIN t.weight[i] :
                                        t.weight[i][j] =
                                           IF i # ChannelPad(a, c) /\ i = j THEN 1 ELSE 0

\* a structured word table with more columns than rows and a padding index
\* other than 0 was built.
C8_Witness ==
    /\ AfterEmbeddingsInit
    /\ emb # None
    /\ result.in.enable_embeddingless
    /\ result.in.word_padding_idx = 1
    /\ result.in.word_vocab_size = 2
    /\ result.in.word_vec_size = 3
    /\ Luts(Val(emb))[1].weight[0][0] = 1
    /\ Luts(Val(emb))[1].weight[1][1] = 0

\* embedding_size as C4 derives it from the arguments
DerivedSize(a) ==
    IF a.feat_merge = "concat"
    THEN SumSeq([c \in 1..(Len(a.feat_vocab_sizes) + 1) |-> ChannelWidth(a, c)])
    ELSE a.word_vec_size

\* C9: an odd positional-encoding width is rejected by the constructor:
\* PositionalEncoding(dim) fails for every odd dim, Embeddings with position
\* encoding fails whenever its embedding_size is odd, so no object with an odd
\* positional width exists and no forward call reports it.
C9_OddWidthRejected ==
    /\ (result.op = "PositionalEncoding.__init__" /\ result.in.dim % 2 = 1) =>
          pe = None /\ result.status = "ValueError: odd dim"
    /\ pe # None => Val(pe).dim % 2 = 0
    /\ (AfterEmbeddingsInit /\ result.in.position_encoding
          /\ Validated(result.status) /\ result.status # "RuntimeError"
          /\ DerivedSize(result.in) % 2 = 1) =>
             emb = None /\ result.status = "ValueError: odd dim"
    /\ (emb # None /\ Val(emb).position_encoding) =>
          /\ Val(emb).embedding_size % 2 = 0
          /\ \A k \in DOMAIN Val(emb).make_embedding :
                Val(emb).make_embedding[k].name = "pe" =>
                   Val(emb).make_embedding[k].mod.dim % 2 = 0
    /\ result.op \in {"PositionalEncoding.forward", "Embeddings.forward"} =>
          result.status # "ValueError: odd dim"

\* an Embeddings whose concat of an even word width and an odd feature width
\* is odd was refused with position encoding on.
C9_Witness ==
    /\ AfterEmbeddingsInit
    /\ result.in.position_encoding
    /\ result.status = "ValueError: odd dim"
    /\ result.in.feat_merge = "concat"
    /\ result.in.word_vec_size = 2
    /\ DerivedSize(result.in) = 3
    /\ emb = None

\* C10: loading a pretrained table of width P into an Embeddings of word width
\* W changes the word table only: for W > P its columns below P are the
\* pretrained ones and the others keep their values, for W < P it is the
\* first W columns of the pretrained table, for W = P it is the pretrained
\* table; the feature tables and everything else stay as they were.
C10_LoadPretrained ==
    (emb # None /\ result.op = "Embeddings.load_pretrained_vectors"
       /\ result.in.emb_file # None) =>
          LET before == result.in.before
              old == Luts(before)[1].weight
              new == Luts(Val(emb))[1].weight
              pretrained == result.in.emb_file[1]
              P == Width(pretrained)
              W == before.word_vec_size
          IN  /\ DOMAIN new = DOMAIN old
              /\ \A i \in DOMAIN new :
                    /\ DOMAIN new[i] = 0..(W - 1)
                    /\ \A j \in DOMAIN new[i] :
                          new[i][j] = IF j < P THEN pretrained[i][j] ELSE old[i][j]
              /\ W = P => new = pretrained
              /\ \A c \in DOMAIN Luts(before) : c # 1 => Luts(Val(emb))[c] = Luts(before)[c]
              /\ Val(emb) = [before EXCEPT !.make_embedding[1].mod.luts[1].weight = new]

\* a narrower pretrained table was loaded into an Embeddings with a feature
\* channel: the last word column kept its values.
C10_Witness ==
    /\ emb # None
    /\ result.op = "Embeddings.load_pretrained_vectors"
    /\ result.in.emb_file # None
    /\ Width(result.in.emb_file[1]) < result.in.before.word_vec_size
    /\ Len(Luts(Val(emb))) > 1
    /\ Luts(Val(emb))[1].weight # Luts(result.in.before)[1].weight
    /\ \E i \in DOMAIN Luts(Val(emb))[1].weight :
          LET W == result.in.before.word_vec_size
          IN  /\ Luts(Val(emb))[1].weight[i][W - 1] # 0
              /\ Luts(Val(emb))[1].weight[i][W - 1] = Luts(result.in.before)[1].weight[i][W - 1]

\* the positional-encoding stage of an Embeddings built with position
\* encoding: the last stage
PEStage(self) == self.make_embedding[Len(self.make_embedding)]

\* C11: for every Embeddings constructed with positional encoding, in every
\* merge configuration, update_dropout(p) does not fail and sets the dropout
\* probability of the positional-encoding stage to p.
C11_UpdateDropout ==
    (emb # None /\ result.op = "Embeddings.update_dropout"
       /\ result.in.before.position_encoding) =>
          /\ result.status = "ok"
          /\ PEStage(Val(emb)).mod.dropout.p = result.in.dropout

\* update_dropout failed on an Embeddings with merge mlp, a feature channel
\* and position encoding, and the positional-encoding stage kept its dropout
\* probability.
C11_Witness ==
    /\ emb # None
    /\ result.op = "Embeddings.update_dropout"
    /\ Val(emb).position_encoding
    /\ Len(Val(emb).make_embedding) = 3
    /\ Val(emb).make_embedding[2].name = "mlp"
    /\ result.status = "AttributeError"
    /\ PEStage(Val(emb)).name = "pe"
    /\ PEStage(Val(emb)).mod.dropout.p # result.in.dropout

\* C12: for a Vocab, after construction and after any sequence of add_token,
\* __getitem__ (lookups of unknown tokens included) and __len__ calls, stoi
\* and itos have the same size and are inverse to each other
\* (stoi[itos[i]] = i for every i), and a lookup never changes the
\* vocabulary size.
C12_VocabConsistent ==
    new_vocab # None =>
        LET self == Val(new_vocab)
        IN  /\ Cardinality(DOMAIN self.stoi) = Len(self.itos)
            /\ \A i \in 0..(Len(self.itos) - 1) :
                  /\ self.itos[i + 1] \in DOMAIN self.stoi
                  /\ self.stoi[self.itos[i + 1]] = i
            /\ result.op = "Vocab.__getitem__" =>
                  VocabLen(self) = VocabLen(result.in.before)

\* the lookup of a token that is not in the vocabulary returned 0 and left
\* the token in stoi: stoi is larger than itos and the size has grown by one.
C12_Witness ==
    /\ new_vocab # None
    /\ result.op = "Vocab.__getitem__"
    /\ result.in.key_str = "zz"
    /\ ~InList("zz", Val(new_vocab).itos)
    /\ result.status = "ok"
    /\ result.out = Some(0)
    /\ "zz" \in DOMAIN Val(new_vocab).stoi
    /\ VocabLen(Val(new_vocab)) = VocabLen(result.in.before) + 1
    /\ VocabLen(Val(new_vocab)) = Len(Val(new_vocab).itos) + 1

====
